---- MODULE Spec2Model ----
(***************************************************************************)
(* Battery command sequencing of the Huawei SUN2000 control scripts:       *)
(* ensure_and_set (write, read back, classify), the five register plans    *)
(* (force_charge_duration, force_discharge_duration, force_charge_soc,     *)
(* force_discharge_soc, stop_charge), the monitor_stats poller task that   *)
(* every force_* operation creates and stop_charge cancels, the run_cycle   *)
(* driver with its try/finally around shutdown_bridge, the poll_telemetry  *)
(* task, and full_tcp_sequence with run_battery_cycles.                    *)
(*                                                                         *)
(* The foreground coroutine and the poller tasks are asyncio tasks of one  *)
(* event loop: a task runs until its next await, so every action below is  *)
(* "the awaited operation returns (or raises) and the task runs on to its  *)
(* next await".                                                            *)
(***************************************************************************)
EXTENDS Integers, Sequences, FiniteSets, TLC

VARIABLES
    hasEnsure,      \* hasattr(bridge, "ensure_logged_in"): TRUE on a TCP bridge
    mainPc,         \* the await the foreground coroutine is suspended at
    op,             \* the operation running, or the one that returned last
    args,           \* the arguments op was called with
    plan,           \* the ensure_and_set calls of op, in program order
    steps,          \* the ensure_and_set calls of op that have completed
    tasks,          \* every task made by asyncio.create_task(monitor_stats(bridge))
    monitorTask,    \* bridge._monitor_task: an index of tasks, 0 when unset
    session,        \* Idle / Charging / Discharging, by the operation that returned last
    propagated,     \* an exception left the operation and reached its caller
    closed,         \* bridge.stop() has been invoked
    faults,         \* device operations that have failed or been ignored so far
    ip,             \* run_cycle driver: index of the next statement of Script
    fullPc,         \* full_tcp_sequence: the phase the coroutine is in
    poll,           \* the task made by asyncio.create_task(poll_telemetry(...))
    socPolls,       \* run_battery_cycles: iterations begun of the SoC wait loop
    connects,       \* full_tcp_sequence: what each connect_tcp call did, in call order
    shutdowns,      \* what each shutdown_bridge call did, in call order
    rd,             \* the read_param / read_* call of a client that reads one register
    dev             \* the device's storage-control registers, where they are tracked

fullVars == <<fullPc, poll, socPolls>>

auxVars == <<connects, shutdowns, rd, dev>>

vars == <<hasEnsure, mainPc, op, args, plan, steps, tasks, monitorTask,
          session, propagated, closed, faults, ip, fullPc, poll, socPolls,
          connects, shutdowns, rd, dev>>

----------------------------------------------------------------------------
(* Bounds *)

MaxTasks  == 2      \* create_task calls a free client may make
MaxFaults == 1      \* device operations that may fail or be ignored in one run
MaxShutdowns == 2   \* shutdown_bridge calls a free client may make
MaxCalls == 3       \* operations called on a device whose registers are tracked
MaxForced == 1      \* force_* operations among them
MaxLiveCalls == 2   \* operations called by the client whose calls must terminate

----------------------------------------------------------------------------
(* Registers and values *)

SOC             == "STORAGE_FORCIBLE_CHARGE_DISCHARGE_SOC"
PERIOD          == "STORAGE_FORCED_CHARGING_AND_DISCHARGING_PERIOD"
CHARGE_POWER    == "STORAGE_FORCIBLE_CHARGE_POWER"
DISCHARGE_POWER == "STORAGE_FORCIBLE_DISCHARGE_POWER"
WRITE           == "STORAGE_FORCIBLE_CHARGE_DISCHARGE_WRITE"

Regs == {SOC, PERIOD, CHARGE_POWER, DISCHARGE_POWER, WRITE}

Powers     == {100, 500}
Durations  == {2}
TargetSocs == {80}

Step(reg, val) == [reg |-> reg, val |-> val]

\* (mutant) only the by-duration operations start a monitor task
ForceOps_DurationOnly == {"force_charge_duration", "force_discharge_duration"}

ForceOps == {"force_charge_duration", "force_discharge_duration",
             "force_charge_soc", "force_discharge_soc"}
ChargeOps    == {"force_charge_duration", "force_charge_soc"}
DischargeOps == {"force_discharge_duration", "force_discharge_soc"}

----------------------------------------------------------------------------
(* The register plans: the ensure_and_set calls of each operation, in the   *)
(* order of the awaits in its body.                                         *)

\* (mutant) the trigger is written before the power
force_charge_duration_TriggerFirst(power, duration) ==
    << Step(SOC, 100), Step(PERIOD, duration),
       Step(WRITE, 1), Step(CHARGE_POWER, power) >>

force_charge_duration(power, duration) ==
    << Step(SOC, 100), Step(PERIOD, duration),
       Step(CHARGE_POWER, power), Step(WRITE, 1) >>

\* (mutant) the charge plan's target SoC pasted into the discharge plan
force_discharge_duration_SocOfCharge(power, duration) ==
    << Step(SOC, 100), Step(PERIOD, duration),
       Step(DISCHARGE_POWER, power), Step(WRITE, 2) >>

force_discharge_duration(power, duration) ==
    << Step(SOC, 0), Step(PERIOD, duration),
       Step(DISCHARGE_POWER, power), Step(WRITE, 2) >>

\* (mutant) the by-SoC plan also writes the period register
force_charge_soc_WithPeriod(power, target_soc) ==
    << Step(SOC, target_soc), Step(PERIOD, 0),
       Step(CHARGE_POWER, power), Step(WRITE, 1) >>

force_charge_soc(power, target_soc) ==
    << Step(SOC, target_soc), Step(CHARGE_POWER, power), Step(WRITE, 1) >>

\* (mutant) the discharge plan triggers a charge
force_discharge_soc_TriggersCharge(power, target_soc) ==
    << Step(SOC, target_soc), Step(DISCHARGE_POWER, power), Step(WRITE, 1) >>

force_discharge_soc(power, target_soc) ==
    << Step(SOC, target_soc), Step(DISCHARGE_POWER, power), Step(WRITE, 2) >>

\* (mutant) the Stop plan leaves the discharge power set
stop_charge_KeepsDischargePower ==
    << Step(PERIOD, 0), Step(CHARGE_POWER, 0), Step(WRITE, 0) >>

stop_charge ==
    << Step(PERIOD, 0), Step(CHARGE_POWER, 0),
       Step(DISCHARGE_POWER, 0), Step(WRITE, 0) >>

----------------------------------------------------------------------------
(* ensure_and_set *)

\* (mutant) CancelledError caught as an Exception
ExceptException_CatchesAll(exc) == TRUE

\* (mutant) ensure_and_set without its try/except
ExceptException_Nothing(exc) == FALSE

\* `except Exception`: the clause catches exc iff exc is an Exception;
\* asyncio.CancelledError is a BaseException and passes through it.
ExceptException(exc) == exc = "Exception"

\* (mutant) the comparison of the read-back inverted
ReadBackOutcome_Inverted(got, value) ==
    IF got = value THEN "MISMATCH" ELSE "VALIDATED"

\* (mutant) the read-back is not compared
ReadBackOutcome_NoCompare(got, value) == "VALIDATED"

\* if result.value == value: [VALIDATED] else: [MISMATCH]
ReadBackOutcome(got, value) ==
    IF got = value THEN "VALIDATED" ELSE "MISMATCH"

\* (mutant) the read-back always reads the trigger register
StepRec_ReadsTrigger(s, auth, set, get, got, outcome) ==
    [reg |-> s.reg, val |-> s.val, auth |-> auth, set |-> set, get |-> get,
     back |-> IF get = "none" THEN "none" ELSE WRITE,
     got |-> got, outcome |-> outcome]

\* What one completed ensure_and_set call did: auth/set/get are "ok", "raise"
\* or "none" (not called); back is the register handed to bridge.client.get
\* ("none": not called); got is <<result.value>> or <<>>.
StepRec(s, auth, set, get, got, outcome) ==
    [reg |-> s.reg, val |-> s.val, auth |-> auth, set |-> set, get |-> get,
     back |-> IF get = "none" THEN "none" ELSE s.reg,
     got |-> got, outcome |-> outcome]

CurStep == plan[Len(steps) + 1]

\* (mutant) ensure_and_set never awaits bridge.ensure_logged_in
AuthDone_None == "none"

AuthDone == IF hasEnsure THEN "ok" ELSE "none"

\* (mutant) ensure_and_set starts with the write on every bridge
FirstAwait_NoLogin == "set"

\* The first await of ensure_and_set: ensure_logged_in() where the bridge has
\* it, bridge.set() otherwise.
FirstAwait == IF hasEnsure THEN "ensure" ELSE "set"

\* The orchestrator state an operation leaves the session in when it returns.
SessionOf(o) ==
    IF o \in ChargeOps THEN "Charging"
    ELSE IF o \in DischargeOps THEN "Discharging"
    ELSE "Idle"

\* (mutant) the done() test inverted
MonitorRunning_Inverted(t) == t # 0 /\ tasks[t].pc = "done"

\* (mutant) stop_charge cancels and awaits the task without asking done()
MonitorRunning_IgnoresDone(t) == t # 0

\* monitor_task and not monitor_task.done()
MonitorRunning(t) == t # 0 /\ tasks[t].pc # "done"

NewTask == [pc |-> "new", cancelReq |-> FALSE, cancelled |-> FALSE]

\* The code after the last ensure_and_set of the operation.
AfterPlan ==
    IF op \in ForceOps
    THEN \* bridge._monitor_task = asyncio.create_task(monitor_stats(bridge))
         /\ tasks' = Append(tasks, NewTask)
         /\ monitorTask' = Len(tasks) + 1
         /\ mainPc' = "idle"
         /\ session' = SessionOf(op)
    ELSE \* stop_charge: cancel the monitor task and await it
         IF MonitorRunning(monitorTask)
         THEN /\ tasks' = [tasks EXCEPT ![monitorTask].cancelReq = TRUE]
              /\ mainPc' = "await_task"
              /\ UNCHANGED <<monitorTask, session>>
         ELSE /\ mainPc' = "idle"
              /\ session' = SessionOf(op)
              /\ UNCHANGED <<tasks, monitorTask>>

\* ensure_and_set returns (it has logged VALIDATED, MISMATCH or the failure) and
\* the operation runs on to its next await.
FinishStep(rec) ==
    LET done == Append(steps, rec) IN
    /\ steps' = done
    /\ propagated' = propagated
    /\ IF Len(done) < Len(plan)
       THEN /\ mainPc' = FirstAwait
            /\ UNCHANGED <<tasks, monitorTask, session>>
       ELSE AfterPlan

\* A device operation of ensure_and_set raises exc inside the try block.
Raise(exc, rec) ==
    IF ExceptException(exc)
    THEN FinishStep(rec)
    ELSE \* the exception leaves ensure_and_set and the operation calling it
         /\ propagated' = TRUE
         /\ mainPc' = "idle"
         /\ UNCHANGED <<steps, session, tasks, monitorTask>>

\* An operation is called: its body runs to the first await of its first
\* ensure_and_set.
Call(o, a, p) ==
    /\ mainPc = "idle"
    /\ ~closed
    /\ op' = o
    /\ args' = a
    /\ plan' = p
    /\ steps' = <<>>
    /\ propagated' = FALSE
    /\ mainPc' = FirstAwait
    /\ UNCHANGED <<hasEnsure, tasks, monitorTask, session, closed, faults>>

NoArgs == [power |-> 0, param |-> 0]

\* await bridge.ensure_logged_in() returns or raises.
EnsureReturns ==
    /\ mainPc = "ensure"
    /\ \/ /\ mainPc' = "set"
          /\ UNCHANGED <<steps, session, tasks, monitorTask, propagated, faults>>
       \/ /\ faults < MaxFaults
          /\ faults' = faults + 1
          /\ Raise("Exception",
                   StepRec(CurStep, "raise", "none", "none", <<>>, "FAILED"))
    /\ UNCHANGED <<hasEnsure, op, args, plan, closed, ip, fullVars, auxVars>>

\* (mutant) ensure_and_set goes on to the next step when the write returns,
\* without the read-back
SetReturns_NoReadBack ==
    /\ mainPc = "set"
    /\ FinishStep(StepRec(CurStep, AuthDone, "ok", "none", <<>>, "VALIDATED"))
    /\ UNCHANGED <<hasEnsure, op, args, plan, closed, faults, ip, fullVars, auxVars>>

\* await bridge.set(register, value) returns or raises.
SetReturns ==
    /\ mainPc = "set"
    /\ \/ /\ mainPc' = "get"
          /\ UNCHANGED <<steps, session, tasks, monitorTask, propagated, faults>>
       \/ /\ faults < MaxFaults
          /\ faults' = faults + 1
          /\ Raise("Exception",
                   StepRec(CurStep, AuthDone, "raise", "none", <<>>, "FAILED"))
    /\ UNCHANGED <<hasEnsure, op, args, plan, closed, ip, fullVars, auxVars>>

\* What the device may report for a register just written with value: the
\* value itself, or another one when it did not apply the write as given.
ReadBacks(value) == {value, value + 1}

\* await bridge.client.get(register, slave=bridge.slave_id) returns or raises.
GetReturns ==
    /\ mainPc = "get"
    /\ \/ \E got \in ReadBacks(CurStep.val) :
            /\ got # CurStep.val => faults < MaxFaults
            /\ faults' = IF got # CurStep.val THEN faults + 1 ELSE faults
            /\ FinishStep(StepRec(CurStep, AuthDone, "ok", "ok", <<got>>,
                                  ReadBackOutcome(got, CurStep.val)))
       \/ /\ faults < MaxFaults
          /\ faults' = faults + 1
          /\ Raise("Exception",
                   StepRec(CurStep, AuthDone, "ok", "raise", <<>>, "FAILED"))
    /\ UNCHANGED <<hasEnsure, op, args, plan, closed, ip, fullVars, auxVars>>

\* (mutant) stop_charge cancels the task and returns without awaiting it
AwaitTaskReturns_NoWait ==
    /\ mainPc = "await_task"
    /\ mainPc' = "idle"
    /\ session' = SessionOf(op)
    /\ UNCHANGED <<hasEnsure, op, args, plan, steps, tasks, monitorTask,
                   propagated, closed, faults, ip, fullVars, auxVars>>

\* await monitor_task in stop_charge: the awaited task has ended.
AwaitTaskReturns ==
    /\ mainPc = "await_task"
    /\ tasks[monitorTask].pc = "done"
    /\ mainPc' = "idle"
    /\ session' = SessionOf(op)
    /\ UNCHANGED <<hasEnsure, op, args, plan, steps, tasks, monitorTask,
                   propagated, closed, faults, ip, fullVars, auxVars>>

----------------------------------------------------------------------------
(* monitor_stats: the poller task *)

TaskIds == 1..Len(tasks)

Live(t) == tasks[t].pc # "done"

LiveTasks == {t \in TaskIds : Live(t)}

\* The pc after one await of the loop body has returned.
NextPollPc(pc) ==
    IF pc = "read1" THEN "read2" ELSE IF pc = "read2" THEN "sleep" ELSE "read1"

\* The event loop runs the new task to its first await: the read of
\* STORAGE_STATE_OF_CAPACITY.
TaskStart(t) ==
    /\ tasks[t].pc = "new"
    /\ ~tasks[t].cancelReq
    /\ tasks' = [tasks EXCEPT ![t].pc = "read1"]
    /\ UNCHANGED <<hasEnsure, mainPc, op, args, plan, steps, monitorTask,
                   session, propagated, closed, faults, ip, fullVars, auxVars>>

\* bridge.client.get inside read_param returns or raises; read_param logs the
\* value or the failure and the loop goes on to its next await.
TaskReadReturns(t) ==
    /\ tasks[t].pc \in {"read1", "read2"}
    /\ ~tasks[t].cancelReq
    /\ \E exc \in {"none", "Exception"} :
          IF exc = "none" \/ ExceptException(exc)
          THEN tasks' = [tasks EXCEPT ![t].pc = NextPollPc(tasks[t].pc)]
          ELSE \* monitor_stats: except Exception: log, return
               tasks' = [tasks EXCEPT ![t].pc = "done"]
    /\ UNCHANGED <<hasEnsure, mainPc, op, args, plan, steps, monitorTask,
                   session, propagated, closed, faults, ip, fullVars, auxVars>>

\* asyncio.sleep(interval_seconds) returns; the next cycle starts its first read.
TaskWake(t) ==
    /\ tasks[t].pc = "sleep"
    /\ ~tasks[t].cancelReq
    /\ tasks' = [tasks EXCEPT ![t].pc = "read1"]
    /\ UNCHANGED <<hasEnsure, mainPc, op, args, plan, steps, monitorTask,
                   session, propagated, closed, faults, ip, fullVars, auxVars>>

\* (mutant) monitor_stats lets the CancelledError through, so the task ends
\* cancelled
TaskCancelled_Reraises(t) ==
    /\ tasks[t].cancelReq
    /\ tasks[t].pc # "done"
    /\ tasks' = [tasks EXCEPT ![t] = [pc |-> "done", cancelReq |-> TRUE,
                                      cancelled |-> TRUE]]
    /\ UNCHANGED <<hasEnsure, mainPc, op, args, plan, steps, monitorTask,
                   session, propagated, closed, faults, ip, fullVars, auxVars>>

\* The event loop delivers a requested cancellation: CancelledError is thrown
\* at the await the task is suspended at (a task that never ran is cancelled
\* without running).
TaskCancelled(t) ==
    /\ tasks[t].cancelReq
    /\ tasks[t].pc # "done"
    /\ tasks' =
         IF tasks[t].pc = "new"
         THEN [tasks EXCEPT ![t] = [pc |-> "done", cancelReq |-> TRUE,
                                    cancelled |-> TRUE]]
         ELSE IF tasks[t].pc \in {"read1", "read2"}
                 /\ ExceptException("CancelledError")
         THEN \* read_param's handler swallows it and the loop goes on
              [tasks EXCEPT ![t] = [pc |-> NextPollPc(tasks[t].pc),
                                    cancelReq |-> FALSE, cancelled |-> FALSE]]
         ELSE \* monitor_stats: except asyncio.CancelledError: log, return
              [tasks EXCEPT ![t] = [pc |-> "done", cancelReq |-> TRUE,
                                    cancelled |-> FALSE]]
    /\ UNCHANGED <<hasEnsure, mainPc, op, args, plan, steps, monitorTask,
                   session, propagated, closed, faults, ip, fullVars, auxVars>>

Poller ==
    \E t \in TaskIds :
        TaskStart(t) \/ TaskReadReturns(t) \/ TaskWake(t) \/ TaskCancelled(t)

----------------------------------------------------------------------------
(* shutdown_bridge *)

\* What one shutdown_bridge call did: stop is "ok" or "raise" (bridge.stop()
\* returned or raised), returned is "normal" or "raised".
ShutdownRec(stop, returned) == [stop |-> stop, returned |-> returned]

\* await bridge.stop() inside try/except Exception: stop() has been invoked,
\* and shutdown_bridge logs and returns normally whether it returned or raised.
shutdown_bridge ==
    /\ closed' = TRUE
    /\ mainPc' = "exit"
    /\ \E exc \in {"none", "Exception"} :
          IF exc = "none"
          THEN /\ shutdowns' = Append(shutdowns, ShutdownRec("ok", "normal"))
               /\ UNCHANGED propagated
          ELSE IF ExceptException(exc)
          THEN /\ shutdowns' = Append(shutdowns, ShutdownRec("raise", "normal"))
               /\ UNCHANGED propagated
          ELSE /\ shutdowns' = Append(shutdowns, ShutdownRec("raise", "raised"))
               /\ propagated' = TRUE
    /\ UNCHANGED <<hasEnsure, op, args, plan, steps, tasks, monitorTask,
                   session, faults, ip, fullVars, connects, rd, dev>>

----------------------------------------------------------------------------
(* A client that calls the operations of the module in any order *)

ApiForceChargeDuration ==
    \E power \in Powers, duration \in Durations :
        /\ Len(tasks) < MaxTasks
        /\ Call("force_charge_duration", [power |-> power, param |-> duration],
                force_charge_duration(power, duration))
        /\ UNCHANGED <<ip, fullVars, auxVars>>

ApiForceDischargeDuration ==
    \E power \in Powers, duration \in Durations :
        /\ Len(tasks) < MaxTasks
        /\ Call("force_discharge_duration", [power |-> power, param |-> duration],
                force_discharge_duration(power, duration))
        /\ UNCHANGED <<ip, fullVars, auxVars>>

ApiForceChargeSoc ==
    \E power \in Powers, target_soc \in TargetSocs :
        /\ Len(tasks) < MaxTasks
        /\ Call("force_charge_soc", [power |-> power, param |-> target_soc],
                force_charge_soc(power, target_soc))
        /\ UNCHANGED <<ip, fullVars, auxVars>>

ApiForceDischargeSoc ==
    \E power \in Powers, target_soc \in TargetSocs :
        /\ Len(tasks) < MaxTasks
        /\ Call("force_discharge_soc", [power |-> power, param |-> target_soc],
                force_discharge_soc(power, target_soc))
        /\ UNCHANGED <<ip, fullVars, auxVars>>

ApiStopCharge ==
    /\ Call("stop_charge", NoArgs, stop_charge)
    /\ UNCHANGED <<ip, fullVars, auxVars>>

\* shutdown_bridge called between operations, on an open bridge or on one that
\* has been shut down before.
ApiShutdownBridge ==
    /\ mainPc \in {"idle", "exit"}
    /\ Len(shutdowns) < MaxShutdowns
    /\ shutdown_bridge

----------------------------------------------------------------------------
(* rtu_command_tests.main / tcp_command_tests.main: for each power, run_cycle *)
(* (charge, sleep, stop, discharge, sleep, stop) inside try, shutdown_bridge  *)
(* in finally.                                                                *)

CyclePowers   == <<100, 200, 300>>
CycleDuration == 2

ScriptLen == 6 * Len(CyclePowers)

\* (mutant) run_cycle forces a second charge where it should stop the first
StmtKind_ChargeTwice == IF (ip - 1) % 6 = 2 THEN 1 ELSE ((ip - 1) % 6) + 1

\* Position in run_cycle: 1 force charge, 2 sleep, 3 stop, 4 force discharge,
\* 5 sleep, 6 stop.
StmtKind  == ((ip - 1) % 6) + 1
StmtPower == CyclePowers[((ip - 1) \div 6) + 1]

InTry == ip <= ScriptLen /\ ~propagated /\ ~closed

DriverForceCharge ==
    /\ InTry /\ StmtKind = 1
    /\ Call("force_charge_duration", [power |-> StmtPower, param |-> CycleDuration],
            force_charge_duration(StmtPower, CycleDuration))
    /\ ip' = ip + 1
    /\ UNCHANGED <<fullVars, auxVars>>

DriverForceDischarge ==
    /\ InTry /\ StmtKind = 4
    /\ Call("force_discharge_duration", [power |-> StmtPower, param |-> CycleDuration],
            force_discharge_duration(StmtPower, CycleDuration))
    /\ ip' = ip + 1
    /\ UNCHANGED <<fullVars, auxVars>>

\* await asyncio.sleep(duration * 60)
DriverSleep ==
    /\ InTry /\ StmtKind \in {2, 5}
    /\ mainPc = "idle"
    /\ mainPc' = "sleep"
    /\ ip' = ip + 1
    /\ UNCHANGED <<fullVars, auxVars>>
    /\ UNCHANGED <<hasEnsure, op, args, plan, steps, tasks, monitorTask,
                   session, propagated, closed, faults>>

DriverWake ==
    /\ mainPc = "sleep"
    /\ mainPc' = "idle"
    /\ UNCHANGED <<hasEnsure, op, args, plan, steps, tasks, monitorTask,
                   session, propagated, closed, faults, ip, fullVars, auxVars>>

DriverStopCharge ==
    /\ InTry /\ StmtKind \in {3, 6}
    /\ Call("stop_charge", NoArgs, stop_charge)
    /\ ip' = ip + 1
    /\ UNCHANGED <<fullVars, auxVars>>

\* The main task is cancelled (asyncio.run on Ctrl-C) while it is suspended in
\* the try body: CancelledError is thrown at that await, no `except Exception`
\* catches it, and control reaches the finally block. (At `await monitor_task`
\* the request is passed on to the monitor task, which absorbs it.)
Interrupt ==
    /\ mainPc \in {"sleep", "ensure", "set", "get"}
    /\ ~ExceptException("CancelledError")
    /\ propagated' = TRUE
    /\ mainPc' = "idle"
    /\ UNCHANGED <<hasEnsure, op, args, plan, steps, tasks, monitorTask,
                   session, closed, faults, ip, fullVars, auxVars>>

\* finally: await shutdown_bridge(bridge)
DriverFinally ==
    /\ mainPc = "idle"
    /\ ~closed
    /\ ip > ScriptLen \/ propagated
    /\ shutdown_bridge

\* main() ends and asyncio.run cancels the tasks that are left.
DriverExit ==
    /\ mainPc = "exit"
    /\ mainPc' = "done"
    /\ tasks' = [t \in TaskIds |->
                   IF Live(t) THEN [tasks[t] EXCEPT !.cancelReq = TRUE] ELSE tasks[t]]
    /\ UNCHANGED <<hasEnsure, op, args, plan, steps, monitorTask,
                   session, propagated, closed, faults, ip, fullVars, auxVars>>

----------------------------------------------------------------------------
(* poll_telemetry: the telemetry poller task *)

\* The registers of the read_* helpers, in the order poll_telemetry awaits them.
TelemetryReads ==
    << "INV_ACTIVE_POWER", "INV_PV_POWER", "INV_GRID_VOLTAGE",
       "INV_GRID_FREQUENCY", "STORAGE_STATE_OF_CAPACITY",
       "STORAGE_CHARGE_DISCHARGE_POWER", "INV_OPERATION_STATE" >>

\* The registers monitor_stats reads, in the order it awaits them.
MonitorReads ==
    << "STORAGE_STATE_OF_CAPACITY", "STORAGE_CHARGE_DISCHARGE_POWER" >>

\* The register a monitor_stats task suspended at pc is reading.
MonitorRegOf(pc) == IF pc = "read1" THEN MonitorReads[1] ELSE MonitorReads[2]

\* No telemetry task has been created.
NoPoll == [pc |-> "none", idx |-> 0, cancelReq |-> FALSE, cancelled |-> FALSE,
           failed |-> FALSE]

\* asyncio.create_task(poll_telemetry(bridge, interval=5)); idx is the position
\* in TelemetryReads of the read in flight, failed says that a read of the task
\* has raised.
NewPoll == [NoPoll EXCEPT !.pc = "new"]

PollLive == poll.pc \notin {"none", "done"}

\* (mutant) the loop body goes back to the first register after the sixth
AfterTelemetryRead_SkipsStatus(p) ==
    IF p.idx < Len(TelemetryReads) - 1
    THEN [p EXCEPT !.idx = p.idx + 1]
    ELSE [p EXCEPT !.idx = 1]

\* The await after the read at p.idx: the next read_* helper, or
\* asyncio.sleep(interval) after the last one.
AfterTelemetryRead(p) ==
    IF p.idx < Len(TelemetryReads)
    THEN [p EXCEPT !.idx = p.idx + 1]
    ELSE [p EXCEPT !.pc = "sleep", !.idx = 0]

\* The event loop runs the new task to its first await: read_active_power.
PollStart ==
    /\ poll.pc = "new"
    /\ ~poll.cancelReq
    /\ poll' = [poll EXCEPT !.pc = "read", !.idx = 1]
    /\ UNCHANGED <<hasEnsure, mainPc, op, args, plan, steps, tasks, monitorTask,
                   session, propagated, closed, faults, ip, fullPc, socPolls, auxVars>>

\* bridge.client.get inside inverter_telemetry.read_param returns or raises;
\* read_param logs the value or the failure and the loop goes on.
PollReadReturns ==
    /\ poll.pc = "read"
    /\ ~poll.cancelReq
    /\ \E exc \in {"none", "Exception"} :
          IF exc = "none"
          THEN poll' = AfterTelemetryRead(poll)
          ELSE IF ExceptException(exc)
          THEN poll' = AfterTelemetryRead([poll EXCEPT !.failed = TRUE])
          ELSE \* poll_telemetry: except Exception: log, return
               poll' = [poll EXCEPT !.pc = "done", !.idx = 0, !.failed = TRUE]
    /\ UNCHANGED <<hasEnsure, mainPc, op, args, plan, steps, tasks, monitorTask,
                   session, propagated, closed, faults, ip, fullPc, socPolls, auxVars>>

\* asyncio.sleep(interval) returns; the next cycle starts its first read.
PollWake ==
    /\ poll.pc = "sleep"
    /\ ~poll.cancelReq
    /\ poll' = [poll EXCEPT !.pc = "read", !.idx = 1]
    /\ UNCHANGED <<hasEnsure, mainPc, op, args, plan, steps, tasks, monitorTask,
                   session, propagated, closed, faults, ip, fullPc, socPolls, auxVars>>

\* The event loop delivers the requested cancellation at the await the task is
\* suspended at (a task that never ran is cancelled without running).
PollCancelled ==
    /\ poll.cancelReq
    /\ PollLive
    /\ poll' =
         IF poll.pc = "new"
         THEN [poll EXCEPT !.pc = "done", !.cancelled = TRUE]
         ELSE IF poll.pc = "read" /\ ExceptException("CancelledError")
         THEN \* read_param's handler swallows it and the loop goes on
              AfterTelemetryRead([poll EXCEPT !.cancelReq = FALSE])
         ELSE \* poll_telemetry: except asyncio.CancelledError: log, return
              [poll EXCEPT !.pc = "done", !.idx = 0]
    /\ UNCHANGED <<hasEnsure, mainPc, op, args, plan, steps, tasks, monitorTask,
                   session, propagated, closed, faults, ip, fullPc, socPolls, auxVars>>

TelemetryPoller == PollStart \/ PollReadReturns \/ PollWake \/ PollCancelled

----------------------------------------------------------------------------
(* inverter_full_tests.full_tcp_sequence and run_battery_cycles *)

\* What a connect_tcp call can do: create_tcp_bridge raises ("create_failed"),
\* it returns and bridge.login raises ("login_failed"), or both return
\* ("connected").
ConnectOutcomes == {"connected", "create_failed", "login_failed"}

\* (mutant) connect_tcp hands the bridge back although the login failed
ReturnsBridge_AlsoUnauthenticated(outcome) == outcome # "create_failed"

\* connect_tcp returns the bridge when nothing raised; its except clause logs
\* and returns None otherwise, without stopping a bridge already created.
ReturnsBridge(outcome) == outcome = "connected"

\* create_tcp_bridge returned: a transport has been opened.
TransportOpened(outcome) == outcome \in {"connected", "login_failed"}

FullPower          == 500
FullDuration       == 2
ChargeTargetSoc    == 80
DischargeTargetSoc == 20
SocPollLimit       == 20

\* What the state-of-capacity register may hold when the wait loop reads it.
SocReadings == {20, 50, 80}

\* The statements of run_battery_cycles: force, wait, stop, four times.
FullLen == 12

InCycles == fullPc = "cycles" /\ ~propagated /\ ~closed /\ ip <= FullLen

\* An exception leaves full_tcp_sequence: nothing in it catches one.
FullRaises ==
    /\ propagated' = TRUE
    /\ fullPc' = "done"

\* await generate_register_map_tcp(): inverter_register_map.main_tcp connects,
\* exports the registers on a bridge of its own and stops it; it returns, or an
\* error of open() or bridge.stop() leaves it.
FullRegisterMap ==
    /\ fullPc = "start"
    /\ \/ fullPc' = "tel_connect" /\ UNCHANGED propagated
       \/ FullRaises
    /\ UNCHANGED <<hasEnsure, mainPc, op, args, plan, steps, tasks, monitorTask,
                   session, closed, faults, ip, poll, socPolls, auxVars>>

\* inverter_telemetry.connect_tcp returns a bridge (the poller task is created
\* and the 120 s sleep begins) or None (telemetry is skipped).
FullTelemetryConnect ==
    /\ fullPc = "tel_connect"
    /\ \E outcome \in ConnectOutcomes :
          /\ connects' = Append(connects, outcome)
          /\ IF ReturnsBridge(outcome)
             THEN fullPc' = "tel_sleep" /\ poll' = NewPoll
             ELSE fullPc' = "bat_connect" /\ UNCHANGED poll
    /\ UNCHANGED <<hasEnsure, mainPc, op, args, plan, steps, tasks, monitorTask,
                   session, propagated, closed, faults, ip, socPolls,
                   shutdowns, rd, dev>>

\* asyncio.sleep(120) returns, after the event loop has run the new task to
\* its first await: telemetry_task.cancel(), then await telemetry_bridge.stop()
\* with no await of the task in between.
FullTelemetryCancel ==
    /\ fullPc = "tel_sleep"
    /\ poll.pc # "new"
    /\ fullPc' = "tel_stop"
    /\ poll' = IF PollLive THEN [poll EXCEPT !.cancelReq = TRUE] ELSE poll
    /\ UNCHANGED <<hasEnsure, mainPc, op, args, plan, steps, tasks, monitorTask,
                   session, propagated, closed, faults, ip, socPolls, auxVars>>

\* await telemetry_bridge.stop() returns or raises.
FullTelemetryStopReturns ==
    /\ fullPc = "tel_stop"
    /\ \/ fullPc' = "bat_connect" /\ UNCHANGED propagated
       \/ FullRaises
    /\ UNCHANGED <<hasEnsure, mainPc, op, args, plan, steps, tasks, monitorTask,
                   session, closed, faults, ip, poll, socPolls, auxVars>>

\* connect_tcp for the battery bridge returns a bridge (run_battery_cycles
\* begins) or None (return). connect_tcp has awaited the network and its
\* settle delay, so a cancellation requested before it has been delivered.
FullBatteryConnect ==
    /\ fullPc = "bat_connect"
    /\ ~PollLive
    /\ \E outcome \in ConnectOutcomes :
          /\ connects' = Append(connects, outcome)
          /\ fullPc' = IF ReturnsBridge(outcome) THEN "cycles" ELSE "done"
    /\ UNCHANGED <<hasEnsure, mainPc, op, args, plan, steps, tasks, monitorTask,
                   session, propagated, closed, faults, ip, poll, socPolls,
                   shutdowns, rd, dev>>

FullForceChargeDuration ==
    /\ InCycles /\ ip = 1
    /\ Call("force_charge_duration",
            [power |-> FullPower, param |-> FullDuration],
            force_charge_duration(FullPower, FullDuration))
    /\ ip' = ip + 1
    /\ UNCHANGED <<fullVars, auxVars>>

FullForceDischargeDuration ==
    /\ InCycles /\ ip = 4
    /\ Call("force_discharge_duration",
            [power |-> FullPower, param |-> FullDuration],
            force_discharge_duration(FullPower, FullDuration))
    /\ ip' = ip + 1
    /\ UNCHANGED <<fullVars, auxVars>>

FullForceChargeSoc ==
    /\ InCycles /\ ip = 7
    /\ Call("force_charge_soc",
            [power |-> FullPower, param |-> ChargeTargetSoc],
            force_charge_soc(FullPower, ChargeTargetSoc))
    /\ ip' = ip + 1
    /\ UNCHANGED <<fullVars, auxVars>>

FullForceDischargeSoc ==
    /\ InCycles /\ ip = 10
    /\ Call("force_discharge_soc",
            [power |-> FullPower, param |-> DischargeTargetSoc],
            force_discharge_soc(FullPower, DischargeTargetSoc))
    /\ ip' = ip + 1
    /\ UNCHANGED <<fullVars, auxVars>>

FullStopCharge ==
    /\ InCycles /\ ip \in {3, 6, 9, 12}
    /\ Call("stop_charge", NoArgs, stop_charge)
    /\ ip' = ip + 1
    /\ UNCHANGED <<fullVars, auxVars>>

\* await asyncio.sleep(2 * 60)
FullSleep ==
    /\ InCycles /\ ip \in {2, 5}
    /\ mainPc = "idle"
    /\ mainPc' = "sleep"
    /\ ip' = ip + 1
    /\ UNCHANGED <<fullVars, auxVars>>
    /\ UNCHANGED <<hasEnsure, op, args, plan, steps, tasks, monitorTask,
                   session, propagated, closed, faults>>

FullWake ==
    /\ fullPc = "cycles"
    /\ mainPc = "sleep"
    /\ mainPc' = "idle"
    /\ UNCHANGED <<hasEnsure, op, args, plan, steps, tasks, monitorTask,
                   session, propagated, closed, faults, ip, fullVars, auxVars>>

\* for _ in range(20): the first bridge.client.get of the wait loop is awaited.
FullSocWait ==
    /\ InCycles /\ ip \in {8, 11}
    /\ mainPc = "idle"
    /\ mainPc' = "soc_get"
    /\ socPolls' = 1
    /\ UNCHANGED <<hasEnsure, op, args, plan, steps, tasks, monitorTask,
                   session, propagated, closed, faults, ip, fullPc, poll, auxVars>>

\* if soc.value >= 80: break  /  if soc.value <= 20: break
SocReached(value) ==
    IF ip = 8 THEN value >= ChargeTargetSoc ELSE value <= DischargeTargetSoc

\* The get of the wait loop returns (break, or await asyncio.sleep(30)) or
\* raises: it is not inside a try, so the error leaves run_battery_cycles and
\* full_tcp_sequence.
FullSocGetReturns ==
    /\ fullPc = "cycles"
    /\ mainPc = "soc_get"
    /\ \/ \E value \in SocReadings :
            /\ IF SocReached(value)
               THEN mainPc' = "idle" /\ ip' = ip + 1 /\ socPolls' = 0
               ELSE mainPc' = "soc_sleep" /\ UNCHANGED <<ip, socPolls>>
            /\ UNCHANGED <<propagated, faults, fullPc>>
       \/ /\ faults < MaxFaults
          /\ faults' = faults + 1
          /\ mainPc' = "idle"
          /\ FullRaises
          /\ UNCHANGED <<ip, socPolls>>
    /\ UNCHANGED <<hasEnsure, op, args, plan, steps, tasks, monitorTask,
                   session, closed, poll, auxVars>>

\* asyncio.sleep(30) returns: the next iteration, or the loop is exhausted.
FullSocSleepReturns ==
    /\ fullPc = "cycles"
    /\ mainPc = "soc_sleep"
    /\ IF socPolls < SocPollLimit
       THEN mainPc' = "soc_get" /\ socPolls' = socPolls + 1 /\ UNCHANGED ip
       ELSE mainPc' = "idle" /\ ip' = ip + 1 /\ socPolls' = 0
    /\ UNCHANGED <<hasEnsure, op, args, plan, steps, tasks, monitorTask,
                   session, propagated, closed, faults, fullPc, poll, auxVars>>

\* await shutdown_bridge(battery_bridge)
FullShutdown ==
    /\ fullPc = "cycles"
    /\ mainPc = "idle"
    /\ ip > FullLen
    /\ ~propagated
    /\ ~closed
    /\ shutdown_bridge

\* full_tcp_sequence ends and asyncio.run cancels the tasks that are left.
FullExit ==
    /\ fullPc \in {"cycles", "done"}
    /\ mainPc = "exit" \/ (fullPc = "done" /\ mainPc = "idle")
    /\ mainPc' = "done"
    /\ fullPc' = "done"
    /\ tasks' = [t \in TaskIds |->
                   IF Live(t) THEN [tasks[t] EXCEPT !.cancelReq = TRUE] ELSE tasks[t]]
    /\ poll' = IF PollLive THEN [poll EXCEPT !.cancelReq = TRUE] ELSE poll
    /\ UNCHANGED <<hasEnsure, op, args, plan, steps, monitorTask,
                   session, propagated, closed, faults, ip, socPolls, auxVars>>

----------------------------------------------------------------------------
(* Specifications *)

\* ---------------------------------------------------------------------------
\* read_param and the read_* telemetry helpers, called once by a client.

SlaveIds   == {0, 1}          \* bridge.slave_id of the bridge passed in
ReadValues == {0, 7, 11}      \* result.value of a read that succeeds

\* Registers a client can hand to read_param.
ReadRegisters == {TelemetryReads[i] : i \in 1..Len(TelemetryReads)}

\* The read_* helpers of inverter_telemetry.
ReadHelpers ==
    { "read_active_power", "read_pv_power", "read_grid_voltage",
      "read_grid_frequency", "read_battery_soc", "read_battery_power",
      "read_inverter_status" }

\* The register each helper passes to read_param.
HelperRegister(h) ==
    CASE h = "read_active_power"    -> "INV_ACTIVE_POWER"
      [] h = "read_pv_power"        -> "INV_PV_POWER"
      [] h = "read_grid_voltage"    -> "INV_GRID_VOLTAGE"
      [] h = "read_grid_frequency"  -> "INV_GRID_FREQUENCY"
      [] h = "read_battery_soc"     -> "STORAGE_STATE_OF_CAPACITY"
      [] h = "read_battery_power"   -> "STORAGE_CHARGE_DISCHARGE_POWER"
      [] h = "read_inverter_status" -> "INV_OPERATION_STATE"

\* Python results: a value, None, a raised error, or nothing yet.
PyValue(v) == [kind |-> "value", value |-> v]
PyNone     == [kind |-> "None", value |-> 0]
PyRaised   == [kind |-> "raised", value |-> 0]
NoResult   == [kind |-> "pending", value |-> 0]

\* rd: pc is "idle", "get" (client.get awaited) or "done"; helper is the read_*
\* helper called or "none" for a direct read_param call; register and slave
\* are the arguments; gets lists the client.get calls made; result is what
\* client.get did, inner what read_param returned, ret what the call returned.
NoRead ==
    [ pc |-> "idle", helper |-> "none", register |-> "none", slave |-> 0,
      gets |-> <<>>, result |-> NoResult, inner |-> NoResult, ret |-> NoResult ]

\* (mutant) read_param answers 0 for a read that raised
ReadParamReturn_ZeroOnError(result) ==
    IF result.kind = "value" THEN PyValue(result.value) ELSE PyValue(0)

\* read_param: return result.value; except Exception: log and return None.
ReadParamReturn(result) ==
    IF result.kind = "value" THEN PyValue(result.value)
    ELSE IF ExceptException("Exception") THEN PyNone
    ELSE PyRaised

\* read_param entered: await bridge.client.get(register, slave=bridge.slave_id)
ReadParamEnter(h, register, slave) ==
    /\ rd.pc \in {"idle", "done"}
    /\ rd' = [ NoRead EXCEPT !.pc = "get", !.helper = h, !.register = register,
                              !.slave = slave,
                              !.gets = <<[register |-> register, slave |-> slave]>> ]
    /\ UNCHANGED <<hasEnsure, mainPc, op, args, plan, steps, tasks, monitorTask,
                   session, propagated, closed, faults, ip, fullVars,
                   connects, shutdowns, dev>>

\* A client calls read_param(bridge, register, label).
CallReadParam ==
    \E register \in ReadRegisters, slave \in SlaveIds :
        ReadParamEnter("none", register, slave)

\* A client calls one of the read_* helpers: return await read_param(bridge, rn.X, label)
CallReadHelper ==
    \E h \in ReadHelpers, slave \in SlaveIds :
        ReadParamEnter(h, HelperRegister(h), slave)

\* client.get returns a result or raises; read_param returns, and the helper
\* (if any) returns what read_param returned.
ReadParamReturns ==
    /\ rd.pc = "get"
    /\ \E result \in {PyValue(v) : v \in ReadValues} \cup {PyRaised} :
          LET inner == ReadParamReturn(result)
          IN  /\ rd' = [ rd EXCEPT !.pc = "done", !.result = result,
                                   !.inner = inner, !.ret = inner ]
              /\ propagated' = (propagated \/ inner.kind = "raised")
    /\ UNCHANGED <<hasEnsure, mainPc, op, args, plan, steps, tasks, monitorTask,
                   session, closed, faults, ip, fullVars, connects,
                   shutdowns, dev>>

\* ---------------------------------------------------------------------------
\* The device's registers as the battery module's writes leave them.

\* A device with no forced session: every storage-control register is 0.
DevIdle == [r \in Regs |-> 0]

\* (mutant) a write lands in the trigger register whatever register was named
DevAfterSet_HitsTrigger(d, step) == [d EXCEPT ![WRITE] = step.val]

\* bridge.set(register, value) applied by the device.
DevAfterSet(d, step) == [d EXCEPT ![step.reg] = step.val]

\* The power the client of the tracked device asks for.
DevPowers == {100}

\* The calls a client of the battery module can make.
ClientCalls ==
    {[op |-> "force_charge_duration", args |-> [power |-> p, param |-> d],
      plan |-> force_charge_duration(p, d)] : p \in DevPowers, d \in Durations}
    \cup
    {[op |-> "force_discharge_duration", args |-> [power |-> p, param |-> d],
      plan |-> force_discharge_duration(p, d)] : p \in DevPowers, d \in Durations}
    \cup
    {[op |-> "force_charge_soc", args |-> [power |-> p, param |-> t],
      plan |-> force_charge_soc(p, t)] : p \in DevPowers, t \in TargetSocs}
    \cup
    {[op |-> "force_discharge_soc", args |-> [power |-> p, param |-> t],
      plan |-> force_discharge_soc(p, t)] : p \in DevPowers, t \in TargetSocs}
    \cup
    {[op |-> "stop_charge", args |-> NoArgs, plan |-> stop_charge]}

\* A client calls one operation, in any order, limit times at most and
\* MaxForced of them force_* operations; ip counts its calls.
ClientCall(limit) ==
    \E c \in ClientCalls :
        /\ ip <= limit
        /\ c.op \in ForceOps => Len(tasks) < MaxForced
        /\ Call(c.op, c.args, c.plan)
        /\ ip' = ip + 1
        /\ UNCHANGED <<fullVars, auxVars>>

DevCall == ClientCall(MaxCalls)

LiveCall == ClientCall(MaxLiveCalls)

\* await bridge.set(register, value) on a device whose registers are tracked:
\* it returns with the value applied, returns with the write ignored by the
\* device, or raises with the write applied or not.
DevSetReturns ==
    /\ mainPc = "set"
    /\ \/ /\ mainPc' = "get"
          /\ dev' = DevAfterSet(dev, CurStep)
          /\ UNCHANGED <<steps, session, tasks, monitorTask, propagated, faults>>
       \/ /\ faults < MaxFaults
          /\ faults' = faults + 1
          /\ mainPc' = "get"
          /\ UNCHANGED <<dev, steps, session, tasks, monitorTask, propagated>>
       \/ /\ faults < MaxFaults
          /\ faults' = faults + 1
          /\ dev' \in {dev, DevAfterSet(dev, CurStep)}
          /\ Raise("Exception",
                   StepRec(CurStep, AuthDone, "raise", "none", <<>>, "FAILED"))
    /\ UNCHANGED <<hasEnsure, op, args, plan, closed, ip, fullVars,
                   connects, shutdowns, rd>>

\* await bridge.client.get(register, slave=bridge.slave_id) on the same
\* device: it returns what the register holds, or raises.
DevGetReturns ==
    /\ mainPc = "get"
    /\ \/ /\ FinishStep(StepRec(CurStep, AuthDone, "ok", "ok", <<dev[CurStep.reg]>>,
                                ReadBackOutcome(dev[CurStep.reg], CurStep.val)))
          /\ UNCHANGED faults
       \/ /\ faults < MaxFaults
          /\ faults' = faults + 1
          /\ Raise("Exception",
                   StepRec(CurStep, AuthDone, "ok", "raise", <<>>, "FAILED"))
    /\ UNCHANGED <<hasEnsure, op, args, plan, closed, ip, fullVars, auxVars>>

Init ==
    /\ hasEnsure \in BOOLEAN
    /\ mainPc = "idle"
    /\ op = "none"
    /\ args = NoArgs
    /\ plan = <<>>
    /\ steps = <<>>
    /\ tasks = <<>>
    /\ monitorTask = 0
    /\ session = "Idle"
    /\ propagated = FALSE
    /\ closed = FALSE
    /\ faults = 0
    /\ ip = 1
    /\ fullPc = "start"
    /\ poll = NoPoll
    /\ socPolls = 0
    /\ connects = <<>>
    /\ shutdowns = <<>>
    /\ rd = NoRead
    /\ dev = DevIdle

Sequencer == EnsureReturns \/ SetReturns \/ GetReturns \/ AwaitTaskReturns

Next ==
    \/ ApiForceChargeDuration
    \/ ApiForceDischargeDuration
    \/ ApiForceChargeSoc
    \/ ApiForceDischargeSoc
    \/ ApiStopCharge
    \/ Sequencer
    \/ Poller

Spec == Init /\ [][Next]_vars

NextDriver ==
    \/ DriverForceCharge
    \/ DriverForceDischarge
    \/ DriverSleep
    \/ DriverWake
    \/ DriverStopCharge
    \/ Interrupt
    \/ DriverFinally
    \/ DriverExit
    \/ Sequencer
    \/ Poller

SpecDriver == Init /\ [][NextDriver]_vars

NextFull ==
    \/ FullRegisterMap
    \/ FullTelemetryConnect
    \/ FullTelemetryCancel
    \/ FullTelemetryStopReturns
    \/ FullBatteryConnect
    \/ FullForceChargeDuration
    \/ FullForceDischargeDuration
    \/ FullForceChargeSoc
    \/ FullForceDischargeSoc
    \/ FullStopCharge
    \/ FullSleep
    \/ FullWake
    \/ FullSocWait
    \/ FullSocGetReturns
    \/ FullSocSleepReturns
    \/ FullShutdown
    \/ FullExit
    \/ Sequencer
    \/ Poller
    \/ TelemetryPoller

SpecFull == Init /\ [][NextFull]_vars

\* A client that stops a session and shuts the bridge down, once or repeatedly.
NextClose ==
    \/ ApiStopCharge
    \/ EnsureReturns
    \/ SetReturns
    \/ GetReturns
    \/ ApiShutdownBridge

SpecClose == Init /\ [][NextClose]_vars

\* A client that reads single registers.
NextRead ==
    \/ CallReadParam
    \/ CallReadHelper
    \/ ReadParamReturns

SpecRead == Init /\ [][NextRead]_vars

\* The free client of the battery module on a device whose registers are
\* tracked.
NextRegs ==
    \/ DevCall
    \/ EnsureReturns
    \/ DevSetReturns
    \/ DevGetReturns
    \/ AwaitTaskReturns
    \/ Poller

SpecRegs == Init /\ [][NextRegs]_vars

\* One step of monitor task t.
TaskStep(t) ==
    /\ t \in TaskIds
    /\ TaskStart(t) \/ TaskReadReturns(t) \/ TaskWake(t) \/ TaskCancelled(t)

\* Every awaited device operation returns or raises, and the event loop runs
\* every task that is ready, the delivery of a requested cancellation included.
Fairness ==
    /\ WF_vars(EnsureReturns)
    /\ WF_vars(SetReturns)
    /\ WF_vars(GetReturns)
    /\ WF_vars(AwaitTaskReturns)
    /\ \A t \in 1..MaxTasks : WF_vars(TaskStep(t))

\* A client of the battery module under that scheduling.
NextLive ==
    \/ LiveCall
    \/ Sequencer
    \/ Poller

SpecLive == Init /\ [][NextLive]_vars /\ Fairness

----------------------------------------------------------------------------
(* What the claims speak about *)

InStep == mainPc \in {"ensure", "set", "get"}

\* The last ensure_and_set of op has returned.
PlanDone == op # "none" /\ ~InStep /\ ~propagated

\* op has returned to its caller.
Returned == op # "none" /\ mainPc = "idle" /\ ~propagated

\* The ensure_and_set calls made so far by op, the one in progress included:
\* how many, and the (register, value) of the i-th.
IssuedLen == IF InStep THEN Len(steps) + 1 ELSE Len(steps)

IssuedAt(i) ==
    IF i <= Len(steps) THEN Step(steps[i].reg, steps[i].val) ELSE CurStep

\* The completed steps whose bridge.set was called / whose ensure_logged_in
\* raised.
SetCalls == Cardinality({i \in 1..Len(steps) : steps[i].set # "none"})

AuthFailures == Cardinality({i \in 1..Len(steps) : steps[i].auth = "raise"})

\* The calls made so far are the first calls of expected.
IssuedPrefixOf(expected) ==
    /\ IssuedLen <= Len(expected)
    /\ \A i \in 1..IssuedLen : IssuedAt(i) = expected[i]

PowerRegs == {CHARGE_POWER, DISCHARGE_POWER}

\* Target-SoC and period first, then the power registers, then the trigger.
Rank(reg) == IF reg \in {SOC, PERIOD} THEN 1 ELSE IF reg \in PowerRegs THEN 2 ELSE 3

----------------------------------------------------------------------------
(* C1 *)

CancelRequested(t) == ~tasks[t].cancelReq /\ tasks'[t].cancelReq

----------------------------------------------------------------------------
(* C2 *)

\* C2: at most one poller task of the bridge is live, after any sequence of
\* force_* and stop_charge calls.
C2_AtMostOneLivePoller == Cardinality(LiveTasks) <= 1

----------------------------------------------------------------------------
(* C3 *)

\* C3: when bridge.stop() has been invoked the orchestrator is Idle: the
\* operation that returned last is stop_charge (or none) and no poller is live.
C3_ClosedOnlyWhenIdle ==
    closed => session = "Idle" /\ LiveTasks = {}

----------------------------------------------------------------------------
(* C4 *)

\* C4: no step outcome aborts a plan: no exception leaves the operation, and
\* once the plan is done every step of it has been executed, with one
\* bridge.set call per step except the steps whose ensure_logged_in raised.
C4_NeverAborts ==
    /\ ~propagated
    /\ PlanDone =>
         /\ Len(steps) = Len(plan)
         /\ SetCalls = Len(plan) - AuthFailures

\* A plan has run to its end although its first step failed in bridge.set: the
\* later steps have all been written.
C4_Witness ==
    /\ PlanDone /\ Len(steps) = Len(plan)
    /\ steps[1].outcome = "FAILED" /\ steps[1].set = "raise"
    /\ \A i \in 2..Len(steps) : steps[i].set = "ok"

----------------------------------------------------------------------------
(* C5 *)

\* C5: in every plan the target-SoC and period steps come before every power
\* step, every power step before the trigger step, and the trigger step is the
\* last step of the plan.
C5_PlanOrder ==
    /\ \A i \in 1..IssuedLen :
         /\ i > 1 => Rank(IssuedAt(i - 1).reg) <= Rank(IssuedAt(i).reg)
         /\ IssuedAt(i).reg = WRITE => i = Len(plan)
    /\ PlanDone => IssuedAt(IssuedLen).reg = WRITE

\* A force plan and a Stop plan have both run to their end.
C5_Witness ==
    /\ PlanDone /\ op = "stop_charge" /\ Len(tasks) > 0
    /\ \A i \in 1..Len(steps) : steps[i].set = "ok"

----------------------------------------------------------------------------
(* C6 *)

\* C6: force_charge_duration issues exactly [SoC=100, period=duration,
\* charge-power=power, trigger=1] and force_discharge_duration exactly
\* [SoC=0, period=duration, discharge-power=power, trigger=2], in that order.
C6_DurationPlans ==
    LET charge    == << Step(SOC, 100), Step(PERIOD, args.param),
                        Step(CHARGE_POWER, args.power), Step(WRITE, 1) >>
        discharge == << Step(SOC, 0), Step(PERIOD, args.param),
                        Step(DISCHARGE_POWER, args.power), Step(WRITE, 2) >>
    IN  /\ op = "force_charge_duration" =>
             IssuedPrefixOf(charge) /\ (PlanDone => IssuedLen = Len(charge))
        /\ op = "force_discharge_duration" =>
             IssuedPrefixOf(discharge) /\ (PlanDone => IssuedLen = Len(discharge))

\* force_discharge_duration has returned with all four writes made.
C6_Witness ==
    /\ Returned /\ op = "force_discharge_duration"
    /\ SetCalls = 4

----------------------------------------------------------------------------
(* C7 *)

\* C7: force_charge_soc issues exactly [SoC=target, charge-power=power,
\* trigger=1] and force_discharge_soc exactly [SoC=target,
\* discharge-power=power, trigger=2], in that order, and no period step.
C7_SocPlans ==
    LET charge    == << Step(SOC, args.param), Step(CHARGE_POWER, args.power),
                        Step(WRITE, 1) >>
        discharge == << Step(SOC, args.param), Step(DISCHARGE_POWER, args.power),
                        Step(WRITE, 2) >>
    IN  /\ op = "force_charge_soc" =>
             IssuedPrefixOf(charge) /\ (PlanDone => IssuedLen = Len(charge))
        /\ op = "force_discharge_soc" =>
             IssuedPrefixOf(discharge) /\ (PlanDone => IssuedLen = Len(discharge))
        /\ op \in {"force_charge_soc", "force_discharge_soc"} =>
             \A i \in 1..IssuedLen : IssuedAt(i).reg # PERIOD

\* force_charge_soc has returned with all three writes made.
C7_Witness ==
    /\ Returned /\ op = "force_charge_soc"
    /\ SetCalls = 3

----------------------------------------------------------------------------
(* C8 *)

\* C8: stop_charge issues exactly [period=0, charge-power=0,
\* discharge-power=0, trigger=0], in that order, whatever ran before it.
C8_StopPlan ==
    LET stop == << Step(PERIOD, 0), Step(CHARGE_POWER, 0),
                   Step(DISCHARGE_POWER, 0), Step(WRITE, 0) >>
    IN  op = "stop_charge" =>
            IssuedPrefixOf(stop) /\ (PlanDone => IssuedLen = Len(stop))

\* stop_charge has returned, all four writes made, after two forced sessions.
C8_Witness ==
    /\ Returned /\ op = "stop_charge"
    /\ SetCalls = 4
    /\ Len(tasks) = 2

----------------------------------------------------------------------------
(* C9 *)

\* C9: the trigger register is only given 0, 1 or 2: 1 only by the forced-charge
\* operations, 2 only by the forced-discharge operations, 0 only by stop_charge.
C9_TriggerValues ==
    \A i \in 1..IssuedLen :
        IssuedAt(i).reg = WRITE =>
            /\ IssuedAt(i).val \in {0, 1, 2}
            /\ IssuedAt(i).val = 1 => op \in ChargeOps
            /\ IssuedAt(i).val = 2 => op \in DischargeOps
            /\ IssuedAt(i).val = 0 => op = "stop_charge"

\* The trigger write of force_discharge_soc is outstanding.
C9_Witness ==
    /\ op = "force_discharge_soc" /\ mainPc = "set"
    /\ CurStep.reg = WRITE

----------------------------------------------------------------------------
(* C10 *)

BothSucceeded(r) == r.set = "ok" /\ r.get = "ok"

\* C10, as claimed: every step has one outcome, VALIDATED iff write and
\* read-back succeed with equal values, MISMATCH iff both succeed and the
\* values differ, FAILED iff the write or the read-back raises; and no error
\* reaches the caller.
C10_OutcomeAsClaimed ==
    /\ ~propagated
    /\ \A i \in 1..Len(steps) :
         LET r == steps[i] IN
         /\ r.outcome \in {"VALIDATED", "MISMATCH", "FAILED"}
         /\ r.outcome = "VALIDATED" <=> BothSucceeded(r) /\ r.got = <<r.val>>
         /\ r.outcome = "MISMATCH" <=> BothSucceeded(r) /\ r.got # <<r.val>>
         /\ r.outcome = "FAILED" <=> (r.set = "raise" \/ r.get = "raise")

\* C10, amended: as claimed, except that a step is FAILED iff
\* ensure_logged_in, the write or the read-back raises.
C10_Outcome ==
    /\ ~propagated
    /\ \A i \in 1..Len(steps) :
         LET r == steps[i] IN
         /\ r.outcome \in {"VALIDATED", "MISMATCH", "FAILED"}
         /\ r.outcome = "VALIDATED" <=> BothSucceeded(r) /\ r.got = <<r.val>>
         /\ r.outcome = "MISMATCH" <=> BothSucceeded(r) /\ r.got # <<r.val>>
         /\ r.outcome = "FAILED" <=>
              (r.auth = "raise" \/ r.set = "raise" \/ r.get = "raise")

\* A plan has had a validated step and then a step that failed in
\* ensure_logged_in, before any write.
C10_Witness ==
    \E i, k \in 1..Len(steps) :
        /\ i < k
        /\ steps[i].outcome = "VALIDATED"
        /\ steps[k].outcome = "FAILED" /\ steps[k].auth = "raise"
        /\ steps[k].set = "none"

----------------------------------------------------------------------------
(* C11 *)

\* C11: on a session where no device operation has failed and every read-back
\* has echoed the written value, every step executed is VALIDATED, the steps
\* are the steps of the plan in plan order with one bridge.set call each, and a
\* finished plan has had exactly one write per step.
C11_AllValidated ==
    faults = 0 =>
        /\ \A i \in 1..Len(steps) :
             /\ steps[i].outcome = "VALIDATED"
             /\ steps[i].set = "ok"
             /\ Step(steps[i].reg, steps[i].val) = plan[i]
        /\ PlanDone => Len(steps) = Len(plan) /\ SetCalls = Len(plan)

\* force_charge_duration has run its four steps on a network bridge with every
\* operation succeeding.
C11_Witness ==
    /\ PlanDone /\ op = "force_charge_duration" /\ hasEnsure
    /\ faults = 0
    /\ Len(steps) = 4
    /\ \A i \in 1..4 : steps[i].outcome = "VALIDATED" /\ steps[i].got = <<steps[i].val>>

----------------------------------------------------------------------------
(* C12 *)

\* The read-back of a step has returned or raised, or the step failed before it.
StepEnded(r) ==
    \/ r.auth = "raise" /\ r.set = "none" /\ r.get = "none"
    \/ r.set = "raise" /\ r.get = "none"
    \/ r.set = "ok" /\ r.get \in {"ok", "raise"}

\* C12: the steps of a plan are strictly sequential: while a step is in
\* flight it is the only one, it is step Len(steps)+1 of the plan, and every
\* earlier step of the plan has ended with its read-back or its failure.
C12_StrictlySequential ==
    /\ InStep => Len(steps) < Len(plan)
    /\ Len(steps) <= Len(plan)
    /\ \A i \in 1..Len(steps) :
         /\ Step(steps[i].reg, steps[i].val) = plan[i]
         /\ StepEnded(steps[i])

\* The write of the third step is in flight after the first step was read back
\* and the second failed in its write.
C12_Witness ==
    /\ mainPc = "set" /\ Len(steps) = 2
    /\ steps[1].get = "ok"
    /\ steps[2].set = "raise"

----------------------------------------------------------------------------
(* C13 *)

\* C13: stop_charge returns from its await of the poller task only when the
\* task is done, and a task that is done stays done: it starts no read at any
\* later point.
C13_StoppedPollerStaysStopped ==
    /\ [][mainPc = "await_task" /\ mainPc' # "await_task" =>
            tasks[monitorTask].pc = "done" /\ tasks'[monitorTask].pc = "done"]_vars
    /\ [][\A t \in TaskIds : tasks[t].pc = "done" => tasks'[t].pc = "done"]_vars

\* A poller stopped by stop_charge is done while the poller of a later forced
\* session is reading.
C13_Witness ==
    /\ Len(tasks) = 2 /\ monitorTask = 2
    /\ tasks[1].pc = "done" /\ tasks[1].cancelReq
    /\ tasks[2].pc \in {"read1", "read2"}

----------------------------------------------------------------------------
(* C14 *)

\* C14: once the cancellation of a poller task (monitor_stats or
\* poll_telemetry) has been requested, the only step the task takes is to end:
\* it starts no further read, at whichever await the request finds it, and a
\* cancellation delivered inside read_param does not let the loop go on.
C14_NoReadAfterCancel ==
    [][/\ \A t \in TaskIds :
            tasks[t].cancelReq =>
                tasks'[t] = tasks[t] \/ tasks'[t].pc = "done"
       /\ poll.cancelReq => poll' = poll \/ poll'.pc = "done"]_vars

\* The telemetry poller has ended on its cancellation and the cancellation of
\* a monitor task suspended inside a register read is pending.
C14_Witness ==
    /\ poll.pc = "done" /\ poll.cancelReq
    /\ monitorTask # 0
    /\ tasks[monitorTask].cancelReq
    /\ tasks[monitorTask].pc \in {"read1", "read2"}

----------------------------------------------------------------------------
(* C15 *)

\* C15: a poller task ends only when its cancellation has been requested, and
\* every register read that returns or raises without a cancellation is
\* followed by the next register of the cycle, or by the interval sleep after
\* the last register.
C15_FailedReadNeverHalts ==
    /\ [](/\ \A t \in TaskIds : tasks[t].pc = "done" => tasks[t].cancelReq
          /\ poll.pc = "done" => poll.cancelReq)
    /\ [][/\ \A t \in TaskIds :
               tasks[t].pc \in {"read1", "read2"} /\ ~tasks[t].cancelReq
                 /\ tasks'[t].pc # tasks[t].pc =>
                   tasks'[t].pc = IF tasks[t].pc = "read1" THEN "read2" ELSE "sleep"
          /\ poll.pc = "read" /\ ~poll.cancelReq
               /\ <<poll'.pc, poll'.idx>> # <<poll.pc, poll.idx>> =>
                 IF poll.idx < 7
                 THEN poll'.pc = "read" /\ poll'.idx = poll.idx + 1
                 ELSE poll'.pc = "sleep"]_vars

\* A read of the telemetry poller has failed and the poller has gone on to the
\* first read of a later cycle.
C15_Witness ==
    /\ poll.failed /\ ~poll.cancelReq
    /\ poll.pc = "read" /\ poll.idx = 1

----------------------------------------------------------------------------
(* C16 *)

\* The read orders C16 states.
ExpectedMonitorOrder ==
    << "STORAGE_STATE_OF_CAPACITY", "STORAGE_CHARGE_DISCHARGE_POWER" >>

ExpectedTelemetryOrder ==
    << "INV_ACTIVE_POWER", "INV_PV_POWER", "INV_GRID_VOLTAGE",
       "INV_GRID_FREQUENCY", "STORAGE_STATE_OF_CAPACITY",
       "STORAGE_CHARGE_DISCHARGE_POWER", "INV_OPERATION_STATE" >>

\* C16: monitor_stats reads state-of-capacity, then charge/discharge power,
\* then sleeps; poll_telemetry reads active power, PV power, grid voltage, grid
\* frequency, battery SoC, battery power, inverter status, then sleeps; each
\* cycle starts at the first register and no register is read twice between
\* two sleeps.
C16_FixedReadOrder ==
    /\ [](/\ MonitorRegOf("read1") = ExpectedMonitorOrder[1]
          /\ MonitorRegOf("read2") = ExpectedMonitorOrder[2]
          /\ poll.pc = "read" =>
               /\ poll.idx \in 1..7
               /\ TelemetryReads[poll.idx] = ExpectedTelemetryOrder[poll.idx])
    /\ [][/\ \A t \in TaskIds :
               tasks'[t].pc # tasks[t].pc /\ tasks'[t].pc # "done" =>
                   \/ tasks[t].pc \in {"new", "sleep"} /\ tasks'[t].pc = "read1"
                   \/ tasks[t].pc = "read1" /\ tasks'[t].pc = "read2"
                   \/ tasks[t].pc = "read2" /\ tasks'[t].pc = "sleep"
          /\ <<poll'.pc, poll'.idx>> # <<poll.pc, poll.idx>>
               /\ poll'.pc # "done" /\ poll.pc # "none" =>
                   \/ /\ poll.pc \in {"new", "sleep"}
                      /\ poll'.pc = "read" /\ poll'.idx = 1
                   \/ /\ poll.pc = "read" /\ poll.idx < 7
                      /\ poll'.pc = "read" /\ poll'.idx = poll.idx + 1
                   \/ /\ poll.pc = "read" /\ poll.idx = 7
                      /\ poll'.pc = "sleep"]_vars

\* The telemetry poller sleeps after a whole cycle of reads.
C16_Witness ==
    /\ poll.pc = "sleep" /\ ~poll.cancelReq

----------------------------------------------------------------------------
(* C17 *)

\* A plan is between its first write and its last read-back.
PlanRunning == InStep /\ (mainPc \in {"set", "get"} \/ Len(steps) > 0)

\* C17: no poller read is issued on the bridge while a plan (a force_* plan or
\* the Stop plan) is between its first write and its last read-back.
C17_NoPollerReadDuringPlan ==
    [][\A t \in TaskIds :
          tasks'[t].pc \in {"read1", "read2"} /\ tasks'[t].pc # tasks[t].pc =>
              ~PlanRunning]_vars

----------------------------------------------------------------------------
(* C18 *)

\* The device operations (get or set) awaited on the bridge: by the foreground
\* coroutine and by the monitor tasks.
MainInFlight == IF mainPc \in {"set", "get", "soc_get"} THEN 1 ELSE 0

PollerReadsInFlight ==
    Cardinality({t \in TaskIds : tasks[t].pc \in {"read1", "read2"}})

\* C18: at most one device operation is in flight on the bridge at any moment.
C18_OneOperationInFlight == MainInFlight + PollerReadsInFlight <= 1

----------------------------------------------------------------------------
(* C19 *)

\* C19: where the bridge has ensure_logged_in, every bridge.set is awaited
\* straight after an ensure_logged_in that returned, in the same step; where it
\* has not, no ensure_logged_in is ever awaited and the step starts with the
\* write. The read-back follows the write directly and no poller task ever
\* awaits ensure_logged_in.
C19_LoginBeforeWriteOnly ==
    /\ [](/\ mainPc = "ensure" => hasEnsure
          /\ \A i \in 1..Len(steps) :
               IF hasEnsure
               THEN /\ steps[i].auth \in {"ok", "raise"}
                    /\ steps[i].set # "none" => steps[i].auth = "ok"
               ELSE steps[i].auth = "none" /\ steps[i].set # "none"
          /\ \A t \in TaskIds :
               tasks[t].pc \in {"new", "read1", "read2", "sleep", "done"})
    /\ [][mainPc' = "set" /\ mainPc # "set" =>
            IF hasEnsure
            THEN mainPc = "ensure" /\ steps' = steps
            ELSE mainPc # "ensure"]_vars
    /\ [][mainPc' = "get" /\ mainPc # "get" =>
            mainPc = "set" /\ steps' = steps]_vars

\* On a network bridge the write of the second step is in flight, after the
\* first step logged in, wrote and read back.
C19_Witness ==
    /\ hasEnsure /\ mainPc = "set" /\ Len(steps) = 1
    /\ steps[1].auth = "ok" /\ steps[1].set = "ok" /\ steps[1].get = "ok"

----------------------------------------------------------------------------
(* C20 *)

\* The last step of the plan of op ends in this step.
LastStepEnds ==
    /\ InStep
    /\ Len(steps) = Len(plan) - 1
    /\ Len(steps') = Len(plan)

\* C20: a poller task is created only in the step in which the last step of a
\* force_* plan ends, and every force_* operation creates exactly one there,
\* not yet started, and stores it in bridge._monitor_task, whatever the
\* outcomes of its steps.
C20_PollerCreatedAfterPlan ==
    /\ [][Len(tasks') # Len(tasks) =>
            /\ op \in {"force_charge_duration", "force_discharge_duration",
                       "force_charge_soc", "force_discharge_soc"}
            /\ LastStepEnds]_vars
    /\ [][LastStepEnds /\ op # "stop_charge" =>
            /\ Len(tasks') = Len(tasks) + 1
            /\ tasks'[Len(tasks')].pc = "new"
            /\ monitorTask' = Len(tasks')
            /\ \A t \in TaskIds : tasks'[t] = tasks[t]]_vars

\* force_charge_soc has returned with its poller task created although its
\* trigger step FAILED.
C20_Witness ==
    /\ Returned /\ op = "force_charge_soc"
    /\ Len(steps) = 3 /\ steps[3].outcome = "FAILED"
    /\ monitorTask = Len(tasks) /\ monitorTask # 0
    /\ tasks[monitorTask].pc = "new"

----------------------------------------------------------------------------
(* C21 *)

\* stop_charge has returned and the monitor task of the bridge has had its
\* cancellation requested.
StoppedPoller ==
    /\ Returned /\ op = "stop_charge"
    /\ monitorTask # 0 /\ tasks[monitorTask].cancelReq

C22_ShutdownNeverRaises ==
    /\ \A i \in 1..Len(shutdowns) : shutdowns[i].returned = "normal"
    /\ Len(shutdowns) > 0 => /\ closed
                             /\ mainPc = "exit"
                             /\ ~propagated

\* shutdown_bridge was called twice on one bridge and bridge.stop() raised on
\* the second call.
C22_Witness ==
    /\ Len(shutdowns) = 2
    /\ shutdowns[1].stop = "ok"
    /\ shutdowns[2].stop = "raise"
    /\ closed

\* ---------------------------------------------------------------------------
\* full_tcp_sequence makes its first connect for telemetry and its second for
\* battery control. stop() has been called on the telemetry bridge once
\* `await telemetry_bridge.stop()` has been left, and on the battery bridge
\* once shutdown_bridge has been called.
StopInvoked(i) ==
    IF i = 1
    THEN ReturnsBridge(connects[1]) /\ fullPc \notin {"tel_sleep", "tel_stop"}
    ELSE Len(shutdowns) > 0

\* Connect calls whose transport was opened and never stopped.
LeakedTransports ==
    {i \in 1..Len(connects) : TransportOpened(connects[i]) /\ ~StopInvoked(i)}

\* C23: every transport opened by a connect helper has been closed when the
\* operation that opened it has ended; in particular a bridge whose login
\* failed has been stopped.
C23_NoTransportLeftOpen ==
    fullPc = "done" => LeakedTransports = {}

\* ---------------------------------------------------------------------------
\* The i-th connect of full_tcp_sequence did not hand back a bridge.
ConnectFailed(i) == i <= Len(connects) /\ connects[i] # "connected"

C25_OneLoginOneWriteOneRead ==
    /\ [](hasEnsure =>
            \A i \in 1..Len(steps) :
                steps[i].outcome # "FAILED" =>
                    /\ steps[i].auth = "ok"
                    /\ steps[i].set = "ok"
                    /\ steps[i].get = "ok"
                    /\ Len(steps[i].got) = 1
                    /\ steps[i].reg = plan[i].reg
                    /\ steps[i].val = plan[i].val)
    /\ [][hasEnsure =>
            /\ (mainPc' \in {"ensure", "set", "get"}
                /\ (mainPc = "idle" \/ Len(steps') = Len(steps) + 1))
                   => mainPc' = "ensure"
            /\ (mainPc' = "set" /\ mainPc # "set")
                   => mainPc = "ensure" /\ steps' = steps
            /\ (mainPc' = "get" /\ mainPc # "get")
                   => mainPc = "set" /\ steps' = steps
            /\ (mainPc = "ensure" /\ steps' = steps /\ mainPc' # mainPc)
                   => mainPc' = "set"
            /\ (mainPc = "set" /\ steps' = steps /\ mainPc' # mainPc)
                   => mainPc' = "get"
            /\ mainPc = "get" /\ mainPc' # mainPc => Len(steps') = Len(steps) + 1
            /\ (Len(steps') = Len(steps) + 1 /\ steps'[Len(steps')].outcome # "FAILED")
                   => mainPc = "get"]_vars

\* A force_charge_duration plan on a bridge with ensure_logged_in has run with
\* every call succeeding.
C25_Witness ==
    /\ hasEnsure
    /\ PlanDone
    /\ op = "force_charge_duration"
    /\ \A i \in 1..Len(steps) : steps[i].outcome = "VALIDATED" /\ steps[i].auth = "ok"
    /\ Len(steps) = Len(plan)

\* ---------------------------------------------------------------------------
\* C26: a read_param call makes exactly one client.get, of the register it was
\* given and on the bridge's slave id; it returns the value read when the read
\* succeeds and None when the read raises, and no error leaves it; a read_*
\* helper reads its own register and returns exactly what read_param returned.
C26_ReadParamContract ==
    /\ rd.pc # "idle" => rd.gets = <<[register |-> rd.register, slave |-> rd.slave]>>
    /\ rd.pc = "done" =>
          /\ rd.result.kind = "value" => rd.inner = PyValue(rd.result.value)
          /\ rd.result.kind = "raised" => rd.inner = PyNone
          /\ rd.ret = rd.inner
          /\ ~propagated
    /\ rd.helper = "read_active_power" => rd.register = "INV_ACTIVE_POWER"
    /\ rd.helper = "read_battery_soc" => rd.register = "STORAGE_STATE_OF_CAPACITY"
    /\ rd.helper = "read_inverter_status" => rd.register = "INV_OPERATION_STATE"

\* read_active_power was called on slave 1 and the read raised: None came back.
C26_Witness ==
    /\ rd.pc = "done"
    /\ rd.helper = "read_active_power"
    /\ rd.slave = 1
    /\ rd.result = PyRaised
    /\ rd.ret = PyNone

\* ---------------------------------------------------------------------------
\* The driver calls an operation of the battery module in this step.
DriverCalls == ip' = ip + 1 /\ mainPc = "idle" /\ mainPc' = FirstAwait

\* C27: the session starts in Idle; in run_cycle force_* and stop_charge calls
\* strictly alternate, starting with a force_*: every force_* is called from
\* Idle, every stop_charge after a force_*, the session never goes from
\* Charging to Discharging or back without passing Idle, and when the driver
\* closes the session after completing normally the last operation was a
\* stop_charge and the session is Idle.
C27_ForceStopAlternate ==
    /\ [](op = "none" => session = "Idle")
    /\ [][/\ (DriverCalls /\ op' \in ForceOps)
                 => session = "Idle" /\ op \in {"none", "stop_charge"}
          /\ (DriverCalls /\ op' = "stop_charge")
                 => op \in ForceOps /\ session # "Idle"
          /\ session' # session => session = "Idle" \/ session' = "Idle"
          /\ (closed' /\ ~closed /\ ~propagated)
                 => op = "stop_charge" /\ session = "Idle" /\ ip > ScriptLen]_vars

\* The three cycles have run to the end and the bridge has been shut down.
C27_Witness ==
    /\ closed
    /\ ~propagated
    /\ ip > ScriptLen
    /\ op = "stop_charge"
    /\ session = "Idle"
    /\ Len(tasks) = 2 * Len(CyclePowers)

\* ---------------------------------------------------------------------------
\* C28: a read-back follows every write that was issued and returned: the
\* same register is then read back (the read returns or raises). When
\* ensure_logged_in raises no write is issued, when the write raises no
\* read-back is issued, and the step is FAILED in both cases; the main task
\* leaves a write only for the read-back of that step or for a failed step.
C28_ReadBackFollowsWrite ==
    /\ [](\A i \in 1..Len(steps) :
            LET r == steps[i] IN
            /\ r.set = "ok" => r.get \in {"ok", "raise"} /\ r.back = r.reg
            /\ r.auth = "raise" =>
                  r.set = "none" /\ r.get = "none" /\ r.outcome = "FAILED"
            /\ r.set = "raise" =>
                  r.get = "none" /\ r.back = "none" /\ r.outcome = "FAILED"
            /\ r.get = "none" => r.got = <<>>)
    /\ [][(mainPc = "set" /\ (mainPc' # "set" \/ steps' # steps)) =>
             \/ mainPc' = "get" /\ steps' = steps
             \/ /\ Len(steps') = Len(steps) + 1
                /\ steps'[Len(steps')].set = "raise"
                /\ steps'[Len(steps')].outcome = "FAILED"]_vars

\* A four-step plan has run in which the write of the second step raised and
\* the three other writes were read back.
C28_Witness ==
    /\ PlanDone /\ Len(steps) = 4
    /\ steps[2].set = "raise" /\ steps[2].back = "none"
    /\ \A i \in {1, 3, 4} : steps[i].get = "ok" /\ steps[i].back = steps[i].reg

\* ---------------------------------------------------------------------------
\* The force_* operation called last has written trigger 1 or 2 (bridge.set
\* returned) and no stop_charge has been called since.
TriggerWritten ==
    /\ op \in ForceOps
    /\ ~closed
    /\ \/ \E i \in 1..Len(steps) : steps[i].reg = WRITE /\ steps[i].set = "ok"
       \/ mainPc = "get" /\ CurStep.reg = WRITE

\* C29: whenever a forced session is active on an open bridge a poller task
\* exists and is not done, from the moment the trigger has been written.
C29_PollerWhileForced ==
    TriggerWritten => \E t \in TaskIds : Live(t)

\* ---------------------------------------------------------------------------
\* The bridge has no _monitor_task, or the task it holds is done.
NoPollerToStop == monitorTask = 0 \/ tasks[monitorTask].pc = "done"

\* C30: stop_charge is safe from Idle: on a bridge that never had a poller, or
\* whose poller task is done, it runs the four steps of the Stop plan, cancels
\* and awaits nothing, and returns to the caller without raising, in Idle.
C30_StopChargeFromIdle ==
    /\ [](Returned /\ op = "stop_charge" =>
             /\ Len(steps) = 4
             /\ \A i \in 1..4 : Step(steps[i].reg, steps[i].val) = stop_charge[i]
             /\ session = "Idle")
    /\ [][(LastStepEnds /\ op = "stop_charge" /\ NoPollerToStop) =>
             /\ tasks' = tasks
             /\ monitorTask' = monitorTask
             /\ mainPc' = "idle"
             /\ session' = "Idle"
             /\ ~propagated']_vars

\* stop_charge has returned on a bridge on which no force_* was ever called.
C30_Witness ==
    /\ Returned /\ op = "stop_charge"
    /\ tasks = <<>> /\ monitorTask = 0
    /\ Len(steps) = 4
    /\ session = "Idle"

\* ---------------------------------------------------------------------------
\* The four registers of the Stop plan all hold 0.
StopRegsClear ==
    dev[PERIOD] = 0 /\ dev[CHARGE_POWER] = 0 /\ dev[DISCHARGE_POWER] = 0 /\ dev[WRITE] = 0

\* stop_charge has returned on a device that accepted every write so far.
StoppedClean == Returned /\ op = "stop_charge" /\ faults = 0

\* C31: stop_charge is idempotent on a device that accepts every write: when
\* it has returned the period, charge-power, discharge-power and trigger
\* registers are 0 and the bridge's poller is not live; from such a state a
\* further stop_charge leaves every register and the bridge's poller as they
\* are at each of its steps, and it does not raise.
C31_StopChargeIdempotent ==
    /\ [](StoppedClean => /\ StopRegsClear
                          /\ ~MonitorRunning(monitorTask)
                          /\ session = "Idle")
    /\ [](op = "stop_charge" => ~propagated)
    /\ [][(/\ op = "stop_charge" /\ op' = "stop_charge"
           /\ StopRegsClear /\ ~MonitorRunning(monitorTask)
           /\ faults' = 0)
             => /\ dev' = dev
                /\ monitorTask' = monitorTask
                /\ monitorTask # 0 => tasks'[monitorTask] = tasks[monitorTask]
                /\ mainPc # "await_task" => mainPc' # "await_task"]_vars

\* Three calls have been made, one of them a force to target SoC 80, and the
\* last stop_charge has returned with the poller done.
C31_Witness ==
    /\ StoppedClean
    /\ ip = 4
    /\ Len(tasks) = 1 /\ tasks[1].pc = "done"
    /\ dev[SOC] = 80
    /\ StopRegsClear

\* ---------------------------------------------------------------------------
\* C32: each plan leaves the registers outside its step list untouched: a
\* write changes no register but the one of the step that issues it, the
\* charge operations never change the discharge-power register, the discharge
\* operations never change the charge-power register, the by-SoC operations
\* never change the period register and stop_charge never changes the
\* target-SoC register, so the target SoC a force_* wrote is still there when
\* the stop_charge after it has returned.
C32_PlanFrame ==
    /\ [](\A i \in 1..Len(plan) :
            /\ op \in ChargeOps => plan[i].reg # DISCHARGE_POWER
            /\ op \in DischargeOps => plan[i].reg # CHARGE_POWER
            /\ op \in {"force_charge_soc", "force_discharge_soc"} =>
                   plan[i].reg # PERIOD
            /\ op = "stop_charge" => plan[i].reg # SOC)
    /\ [][dev' # dev =>
            /\ mainPc = "set"
            /\ \A r \in Regs : r # CurStep.reg => dev'[r] = dev[r]
            /\ op \in ChargeOps => dev'[DISCHARGE_POWER] = dev[DISCHARGE_POWER]
            /\ op \in DischargeOps => dev'[CHARGE_POWER] = dev[CHARGE_POWER]
            /\ op \in {"force_charge_soc", "force_discharge_soc"} =>
                   dev'[PERIOD] = dev[PERIOD]
            /\ op = "stop_charge" => dev'[SOC] = dev[SOC]]_vars

\* force_charge_duration has written target SoC 100 and the stop_charge after
\* it has returned: the four Stop registers are 0 and the target SoC is 100.
C32_Witness ==
    /\ StoppedClean
    /\ Len(tasks) = 1
    /\ dev[SOC] = 100
    /\ StopRegsClear
    /\ ip = 3

\* ---------------------------------------------------------------------------
\* stop_charge has been called and has not returned.
StopRunning == op = "stop_charge" /\ mainPc # "idle"

\* C33: if every device operation eventually returns or raises, a stop_charge
\* call eventually returns, wherever the poller is suspended when it is
\* cancelled and whatever the outcomes of the four steps.
C33_StopChargeTerminates ==
    StopRunning ~> (op = "stop_charge" /\ mainPc = "idle" /\ ~propagated)

\* stop_charge has returned after a step of it failed and after it cancelled a
\* poller that had started.
C33_Witness ==
    /\ Returned /\ op = "stop_charge"
    /\ \E i \in 1..Len(steps) : steps[i].outcome = "FAILED"
    /\ monitorTask # 0
    /\ tasks[monitorTask].pc = "done" /\ ~tasks[monitorTask].cancelled

\* ---------------------------------------------------------------------------
\* C34: in the telemetry drivers the poller has fully terminated before the
\* session is closed: while `await bridge.stop()` is under way, and from then
\* on, the poll_telemetry task is not live.
C34_PollerEndedBeforeStop ==
    fullPc = "tel_stop" => ~PollLive

\* ---------------------------------------------------------------------------
\* C35: in run_battery_cycles and full_tcp_sequence every force_* call is
\* followed by a stop_charge on the same bridge and then by shutdown_bridge on
\* every path: when the sequence has ended after a force_* was called, the
\* last operation called is a stop_charge that returned and shutdown_bridge
\* has been called.
C35_ForceThenStopThenShutdown ==
    (fullPc = "done" /\ op # "none") =>
        /\ op = "stop_charge"
        /\ ~propagated
        /\ Len(shutdowns) > 0
        /\ closed

====
